---- MODULE Spec2Model ----
(***************************************************************************)
(* A model of group_dump: the React client (Join.tsx, Groups.tsx,          *)
(* CardSecurityProvider.tsx, the payment request dashboard) and the        *)
(* backend operations it calls.  The client handlers are translated from   *)
(* the sources; the backend is not part of the sources at hand and is      *)
(* modelled from the design document (sections 3 and 4).                   *)
(***************************************************************************)
EXTENDS Integers, FiniteSets, Sequences, TLC

\* ------------------------------------------------------------------ bounds
NumClients == 2        \* browser sessions acting at the same time
NumInvitees == 2       \* invitees of the group, each with a join token
MaxSlots == 2          \* time slots of a group that has any
MaxCapacity == 3       \* largest max_participants a group is created with

Clients == 1..NumClients
Tokens == 1..NumInvitees            \* the join token of invitee t is t
AnyToken == 0..NumInvitees          \* 0 resolves to no invitee
Users == 0..NumInvitees             \* user 0 is the creator, user t has invitee t's email
Slots == 1..MaxSlots

VARIABLES
  \* backend (Persistence Store)
  group,              \* the Group row
  participants,       \* sequence of users, in join order
  pendingInvitees,    \* tokens of the invitees not yet consumed
  selections,         \* TimeSlotSelection: user -> set of slots
  \* one browser session per client
  page,               \* "closed" | "join" | "groups"
  user,               \* AuthContext user
  token,              \* useParams token of the Join page
  joinInfo, loading, error, joining, joined, selectedTimeSlots,   \* Join.tsx state
  groups, message,    \* Groups.tsx state: the fetched group list, the banner
  net,                \* the request of the session that is in flight, and its reply
  \* CardSecurityProvider
  isCardAccessVerified, lastAccessTime, accessAttempts,   \* its useState values
  resetTimer,         \* the attempt reset timeout: ticks left, -1 when none is set
  logoutTimers,       \* the automatic logout timeouts: ticks left of each
  calls,              \* the latest verifyCardAccess call for each group: age of its
                      \* timestamp, and whether it still awaits the backend
  thrown,             \* what the latest verifyCardAccess call returned or threw
  securityEvents,     \* useSecurityMonitoring, per card: its securityEvents
  auditLog,           \* the security log of the backend
  cardView,           \* VirtualCardDetails, per card: its useState values
  instrument,         \* the disbursement instrument of each group, at the backend
  \* the creator's part of the Groups page, per session, and the funding ledger
  selectedFinalTimeSlots,  \* the final time slot picked in the session, 0 when none
  bookedServices,     \* whether the session's bookedServices set holds the group
  showPaymentModal, actualCost,
  payCalls,           \* the session's generate-payment-requests posts: awaiting the
                      \* backend (pending) and answered, by result
  paymentRequests,    \* backend: the PaymentRequests of the group, in creation order
  \* the time slot section of the Groups page, per session
  userTimeSlotSelections,  \* the session's copy of its user's selections
  timeSlotAnalyses,   \* the analysis the session fetched last
  puts,               \* the selection updates the session has sent, in flight and done
  dashboard,          \* PaymentRequestDashboard, per session: its useState values
  serviceDetails,     \* ServiceConfirmation, per session: the payment breakdown shown
  costShown,          \* Groups.tsx: a total, a member count and the cost per member shown
  createForm,         \* Groups.tsx, the create form: timeSlots, and the answer to its post
  browser             \* the time zone of the browser and its clock

vars == <<group, participants, pendingInvitees, selections, page, user, token,
          joinInfo, loading, error, joining, joined, selectedTimeSlots,
          groups, message, net,
          isCardAccessVerified, lastAccessTime, accessAttempts, resetTimer,
          logoutTimers, calls, thrown, securityEvents, auditLog,
          cardView, instrument,
          selectedFinalTimeSlots, bookedServices, showPaymentModal, actualCost,
          payCalls, paymentRequests, userTimeSlotSelections, timeSlotAnalyses, puts,
          dashboard, serviceDetails, costShown, createForm, browser>>

slotPageVars == <<userTimeSlotSelections, timeSlotAnalyses, puts>>
creatorPageVars == <<selectedFinalTimeSlots, bookedServices, showPaymentModal,
                     actualCost, payCalls>>
formVars == <<createForm, browser>>
dashVars == <<dashboard, serviceDetails, costShown, formVars>>
lifeVars == <<creatorPageVars, paymentRequests, slotPageVars, dashVars>>
memberVars == <<group, participants, pendingInvitees, selections, page, user, token,
                joinInfo, loading, error, joining, joined, selectedTimeSlots,
                groups, message, net>>

auditVars == <<securityEvents, auditLog>>
cardVars == <<cardView, instrument>>
gateVars == <<isCardAccessVerified, lastAccessTime, accessAttempts, resetTimer,
              logoutTimers, calls, thrown, auditVars, cardVars>>

serverVars == <<group, participants, pendingInvitees, selections>>
joinPageVars == <<token, joinInfo, loading, error, joining, joined, selectedTimeSlots>>
groupsPageVars == <<groups, message>>

\* ------------------------------------------------------------ backend data
InviteeEmail(t) == t

NoJoinInfo == [loaded |-> FALSE, invitee_email |-> 0, time_slots |-> {}]
NoGroups == [loaded |-> FALSE, listed |-> FALSE, current_participants |-> 0,
             max_participants |-> 0, time_slots |-> {}]
Idle == [kind |-> "idle", sel |-> {}, result |-> ""]

\* createGroup: status forming, the creator is the first participant.
createGroup(max, slots) ==
  [max_participants |-> max, current_participants |-> 1, status |-> "forming",
   time_slots |-> slots, created_by |-> 0, deleted |-> FALSE]

\* join, steps 1-4: the error the join fails with, or "ok".  (Two faulty
\* variants first: no capacity check, and a capacity check that is off by one.)
JoinCheckOffByOne(t, caller, sel) ==
  IF group.deleted \/ t \notin pendingInvitees THEN "InvalidOrExpiredToken"
  ELSE IF caller # InviteeEmail(t) THEN "IdentityMismatch"
  ELSE IF group.current_participants > group.max_participants THEN "GroupFull"
  ELSE IF group.time_slots # {} /\ sel = {} THEN "TimeSlotSelectionRequired"
  ELSE "ok"

JoinCheckNoCapacity(t, caller, sel) ==
  IF group.deleted \/ t \notin pendingInvitees THEN "InvalidOrExpiredToken"
  ELSE IF caller # InviteeEmail(t) THEN "IdentityMismatch"
  ELSE IF group.time_slots # {} /\ sel = {} THEN "TimeSlotSelectionRequired"
  ELSE "ok"

JoinCheck(t, caller, sel) ==
  IF group.deleted \/ t \notin pendingInvitees THEN "InvalidOrExpiredToken"
  ELSE IF caller # InviteeEmail(t) THEN "IdentityMismatch"
  ELSE IF group.current_participants = group.max_participants THEN "GroupFull"
  ELSE IF group.time_slots # {} /\ sel = {} THEN "TimeSlotSelectionRequired"
  ELSE "ok"

\* join, steps 5-6, one atomic step: Participant, counter, selections, invitee
\* consumed, and the transition to full.  (First a faulty variant that leaves
\* the invitee pending.)
JoinCommitKeepsInvitee(t, caller, sel) ==
  /\ participants' = Append(participants, caller)
  /\ group' = [group EXCEPT
        !.current_participants = @ + 1,
        !.status = IF group.current_participants + 1 = group.max_participants
                   THEN "full" ELSE @]
  /\ selections' = [selections EXCEPT ![caller] = sel]
  /\ UNCHANGED pendingInvitees

JoinCommit(t, caller, sel) ==
  /\ participants' = Append(participants, caller)
  /\ group' = [group EXCEPT
        !.current_participants = @ + 1,
        !.status = IF group.current_participants + 1 = group.max_participants
                   THEN "full" ELSE @]
  /\ selections' = [selections EXCEPT ![caller] = sel]
  /\ pendingInvitees' = pendingInvitees \ {t}

\* The token of the pending invitation of a caller who joins by group id.
TokenOf(caller) == IF caller \in Tokens THEN caller ELSE 0

\* ------------------------------------------------------------------- Init
ServerInit ==
  /\ \E max \in 2..MaxCapacity, slots \in {{}, Slots} : group = createGroup(max, slots)
  /\ participants = <<0>>
  /\ pendingInvitees = Tokens
  /\ selections = [u \in Users |-> {}]

ClientInit ==
  /\ page = [c \in Clients |-> "closed"]
  /\ user = [c \in Clients |-> 0]
  /\ token = [c \in Clients |-> 0]
  /\ joinInfo = [c \in Clients |-> NoJoinInfo]
  /\ loading = [c \in Clients |-> TRUE]
  /\ error = [c \in Clients |-> ""]
  /\ joining = [c \in Clients |-> FALSE]
  /\ joined = [c \in Clients |-> FALSE]
  /\ selectedTimeSlots = [c \in Clients |-> {}]
  /\ groups = [c \in Clients |-> NoGroups]
  /\ message = [c \in Clients |-> ""]
  /\ net = [c \in Clients |-> Idle]

\* CardSecurityProvider: time is counted in ticks of five minutes; an age is
\* the number of ticks since a timestamp, -1 stands for null.
NumCards == 2          \* groups whose card is asked for under the one provider

TickMs == 5 * 60 * 1000
maxAccessAttempts == 3
sessionTimeoutMs == 15 * 60 * 1000
attemptResetTimeMs == 30 * 60 * 1000
minSpacingMs == 5000
MaxAge == (sessionTimeoutMs \div TickMs) + 1     \* ages beyond it are not told apart
Ages == 0..MaxAge
Cards == 1..NumCards
NoCall == [age |-> -1, pending |-> FALSE]

\* VirtualCardDetails before fetchGroupDetails has answered. Amounts are
\* counted in cents; -1 stands for a card_spending_limit that is undefined.
NoCardView ==
  [loading |-> TRUE, card_spending_limit |-> -1, transactions |-> <<>>,
   cardRevealed |-> FALSE, cardFrozen |-> FALSE]

CardInit ==
  /\ cardView = [g \in Cards |-> NoCardView]
  /\ instrument = [g \in Cards |-> [frozen |-> FALSE]]

GateInit ==
  /\ CardInit
  /\ isCardAccessVerified = FALSE
  /\ lastAccessTime = -1
  /\ accessAttempts = 0
  /\ resetTimer = -1
  /\ logoutTimers = {}
  /\ calls = [g \in Cards |-> NoCall]
  /\ thrown = ""
  /\ securityEvents = [g \in Cards |-> <<>>]
  /\ auditLog = <<>>

\* The creator's part of the Groups page and the funding ledger.
MaxPosts == 2          \* generate-payment-requests posts of a session in flight at once

NoAnalysis == [loaded |-> FALSE, count |-> [s \in Slots |-> 0], universal |-> {}]

\* ServiceConfirmation before its service details arrive.
NoDetails == [total_cost |-> -1, serviceFee |-> -1, cardAmount |-> -1]

\* The create form as it is mounted: no time slot, nothing posted.
NoForm == [timeSlots |-> <<>>, posted |-> -1, result |-> ""]

\* A browser: the offset of its zone from UTC in hours, whether the zone moves
\* its clocks forward by an hour on SpringForward, and the day and the hour
\* (UTC) at which the form is filled in. Dates are counted in days.
UTC == [offset |-> 0, dst |-> FALSE, today |-> 0, hour |-> 0]

\* No cost per member on screen.
NoCost == [total |-> -1, members |-> 0, costPerMember |-> -1]

NoDashboard == [paymentRequests |-> <<>>, loading |-> TRUE, error |-> "", generating |-> FALSE]

PayResults == {"ok", "Conflict", "NotFound", "NotAuthorized"}
NoPayCalls == [pending |-> 0, answered |-> [r \in PayResults |-> 0]]

LifeInitBase ==
  /\ selectedFinalTimeSlots = [c \in Clients |-> 0]
  /\ bookedServices = [c \in Clients |-> FALSE]
  /\ showPaymentModal = [c \in Clients |-> FALSE]
  /\ actualCost = [c \in Clients |-> ""]
  /\ payCalls = [c \in Clients |-> NoPayCalls]
  /\ paymentRequests = <<>>
  /\ userTimeSlotSelections = [c \in Clients |-> {}]
  /\ timeSlotAnalyses = [c \in Clients |-> NoAnalysis]
  /\ puts = [c \in Clients |-> <<>>]
  /\ dashboard = [c \in Clients |-> NoDashboard]
  /\ serviceDetails = [c \in Clients |-> NoDetails]
  /\ costShown = NoCost
  /\ createForm = NoForm

LifeInit == LifeInitBase /\ browser = UTC

Init == ServerInit /\ ClientInit /\ GateInit /\ LifeInit

\* -------------------------------------------------------------- Join.tsx
\* The view Join renders (the chain of early returns of the component).
\* (First a faulty variant without the invitation mismatch return.)
JoinViewNoMismatch(c) ==
  IF loading[c] THEN "loading"
  ELSE IF error[c] # "" THEN "error"
  ELSE IF joined[c] THEN "joined"
  ELSE "form"

JoinView(c) ==
  IF loading[c] THEN "loading"
  ELSE IF error[c] # "" THEN "error"
  ELSE IF joined[c] THEN "joined"
  ELSE IF ~joinInfo[c].loaded \/ user[c] # joinInfo[c].invitee_email THEN "mismatch"
  ELSE "form"

\* Mounting the Join page of a link, logged in as u.
OpenJoinPage(c, u, t) ==
  /\ UNCHANGED <<gateVars, lifeVars>>
  /\ page[c] = "closed"
  /\ page' = [page EXCEPT ![c] = "join"]
  /\ user' = [user EXCEPT ![c] = u]
  /\ token' = [token EXCEPT ![c] = t]
  /\ UNCHANGED <<serverVars, joinInfo, loading, error, joining, joined,
                 selectedTimeSlots, groupsPageVars, net>>

\* getJoinInfo: the token resolves to a pending invitee, or fails.
getJoinInfo(t) ==
  IF ~group.deleted /\ t \in pendingInvitees
  THEN [loaded |-> TRUE, invitee_email |-> InviteeEmail(t), time_slots |-> group.time_slots]
  ELSE NoJoinInfo

\* fetchJoinInfo: GET /join/{token}/info and its continuation.
fetchJoinInfo(c) ==
  /\ UNCHANGED <<gateVars, lifeVars>>
  /\ page[c] = "join" /\ loading[c]
  /\ LET info == getJoinInfo(token[c]) IN
       /\ joinInfo' = [joinInfo EXCEPT ![c] = info]
       /\ error' = [error EXCEPT ![c] =
            IF info.loaded THEN @ ELSE "InvalidOrExpiredToken"]
  /\ loading' = [loading EXCEPT ![c] = FALSE]
  /\ UNCHANGED <<serverVars, page, user, token, joining, joined,
                 selectedTimeSlots, groupsPageVars, net>>

handleTimeSlotToggle(c, s) ==
  /\ UNCHANGED <<gateVars, lifeVars>>
  /\ page[c] = "join" /\ JoinView(c) = "form"
  /\ s \in joinInfo[c].time_slots
  /\ selectedTimeSlots' = [selectedTimeSlots EXCEPT ![c] =
       IF s \in @ THEN @ \ {s} ELSE @ \cup {s}]
  /\ UNCHANGED <<serverVars, page, user, token, joinInfo, loading, error,
                 joining, joined, groupsPageVars, net>>

hasTimeSlots(c) == joinInfo[c].loaded /\ joinInfo[c].time_slots # {}

\* The guard of handleJoin: a group with time slots needs a selection.
\* (First a faulty variant that never asks for one.)
SelectionMissingNever(c) == FALSE

SelectionMissing(c) == hasTimeSlots(c) /\ selectedTimeSlots[c] = {}

\* handleJoin up to its await: the guard, then POST /join/{token}.
handleJoin(c) ==
  /\ UNCHANGED <<gateVars, lifeVars>>
  /\ page[c] = "join" /\ JoinView(c) = "form" /\ ~joining[c]
  /\ IF SelectionMissing(c)
     THEN /\ error' = [error EXCEPT ![c] = "TimeSlotSelectionRequired"]
          /\ UNCHANGED <<joining, net>>
     ELSE /\ joining' = [joining EXCEPT ![c] = TRUE]
          /\ net' = [net EXCEPT ![c] =
               [kind |-> "join", sel |-> selectedTimeSlots[c], result |-> ""]]
          /\ UNCHANGED error
  /\ UNCHANGED <<serverVars, page, user, token, joinInfo, loading, joined,
                 selectedTimeSlots, groupsPageVars>>

\* The backend handles POST /join/{token}.
ServerJoin(c) ==
  /\ UNCHANGED <<gateVars, lifeVars>>
  /\ net[c].kind = "join" /\ net[c].result = ""
  /\ LET r == JoinCheck(token[c], user[c], net[c].sel) IN
       /\ net' = [net EXCEPT ![c].result = r]
       /\ IF r = "ok"
          THEN JoinCommit(token[c], user[c], net[c].sel)
          ELSE UNCHANGED serverVars
  /\ UNCHANGED <<page, user, joinPageVars, groupsPageVars>>

\* handleJoin after its await: joined, or the error of the reply.
handleJoinDone(c) ==
  /\ UNCHANGED <<gateVars, lifeVars>>
  /\ net[c].kind = "join" /\ net[c].result # ""
  /\ IF net[c].result = "ok"
     THEN joined' = [joined EXCEPT ![c] = TRUE] /\ UNCHANGED error
     ELSE error' = [error EXCEPT ![c] = net[c].result] /\ UNCHANGED joined
  /\ joining' = [joining EXCEPT ![c] = FALSE]
  /\ net' = [net EXCEPT ![c] = Idle]
  /\ UNCHANGED <<serverVars, page, user, token, joinInfo, loading,
                 selectedTimeSlots, groupsPageVars>>

\* ------------------------------------------------------------- Groups.tsx
\* GET /groups/invited: the group as the caller is shown it, if the caller is
\* its creator, a participant or an invitee.
InSeq(x, q) == \E i \in 1..Len(q) : q[i] = x

groupsInvited(u) ==
  IF ~group.deleted /\ (u = group.created_by \/ InSeq(u, participants) \/ u \in pendingInvitees)
  THEN [loaded |-> TRUE, listed |-> TRUE,
        current_participants |-> group.current_participants,
        max_participants |-> group.max_participants,
        time_slots |-> group.time_slots]
  ELSE [NoGroups EXCEPT !.loaded = TRUE]

\* analyze of the backend: per time slot of the group, how many participants
\* have selected it, and whether that is every current participant.
SelectedBy(s) == {i \in 1..Len(participants) : s \in selections[participants[i]]}

\* (an analysis that measures against the capacity of the group)
analyzeAgainstCapacity ==
  [loaded |-> TRUE,
   count |-> [s \in Slots |-> IF s \in group.time_slots THEN Cardinality(SelectedBy(s)) ELSE 0],
   universal |-> {s \in group.time_slots :
                    Cardinality(SelectedBy(s)) = group.max_participants}]

analyze ==
  [loaded |-> TRUE,
   count |-> [s \in Slots |-> IF s \in group.time_slots THEN Cardinality(SelectedBy(s)) ELSE 0],
   universal |-> {s \in group.time_slots :
                    Cardinality(SelectedBy(s)) = group.current_participants}]

\* GET /groups/{id}/user-time-slots: the selections of a participant; for
\* anyone else the request fails and the session keeps what it has.
userTimeSlots(u, kept) == IF InSeq(u, participants) THEN selections[u] ELSE kept

\* The effect on groups: time slot data is loaded for a listed group that has
\* time slots and is not yet full.
AutoLoadTimeSlots(g) ==
  g.listed /\ g.time_slots # {} /\ g.current_participants < g.max_participants

\* Mounting the Groups page, logged in as u.
OpenGroupsPage(c, u) ==
  /\ UNCHANGED <<gateVars, lifeVars>>
  /\ page[c] = "closed"
  /\ page' = [page EXCEPT ![c] = "groups"]
  /\ user' = [user EXCEPT ![c] = u]
  /\ UNCHANGED <<serverVars, joinPageVars, groupsPageVars, net>>

\* fetchGroups: on mount, and again after a join or a deletion.
fetchGroups(c) ==
  /\ UNCHANGED dashVars
  /\ UNCHANGED <<gateVars, creatorPageVars, paymentRequests>>
  /\ page[c] = "groups"
  /\ (~groups[c].loaded /\ net[c].kind = "idle") \/ net[c].kind = "refresh"
  /\ groups' = [groups EXCEPT ![c] = groupsInvited(user[c])]
  /\ IF AutoLoadTimeSlots(groupsInvited(user[c]))
     THEN /\ userTimeSlotSelections' =
               [userTimeSlotSelections EXCEPT ![c] = userTimeSlots(user[c], @)]
          /\ timeSlotAnalyses' = [timeSlotAnalyses EXCEPT ![c] = analyze]
          /\ UNCHANGED puts
     ELSE UNCHANGED slotPageVars
  /\ net' = [net EXCEPT ![c] = Idle]
  /\ UNCHANGED <<serverVars, page, user, joinPageVars, message>>

isReady(c) == groups[c].current_participants >= groups[c].max_participants
isCreator(c) == user[c] = group.created_by

\* The Join Group button of a group card.
JoinButtonShown(c) ==
  page[c] = "groups" /\ groups[c].listed /\ ~isCreator(c) /\ ~isReady(c)

\* handleJoinGroup up to its await: groups with time slots are joined by the
\* invitation link only; the others by POST /groups/{id}/join with no slots.
handleJoinGroup(c) ==
  /\ UNCHANGED <<gateVars, lifeVars>>
  /\ JoinButtonShown(c) /\ net[c].kind = "idle"
  /\ IF groups[c].time_slots # {}
     THEN /\ message' = [message EXCEPT ![c] = "UseInvitationLink"]
          /\ UNCHANGED net
     ELSE /\ net' = [net EXCEPT ![c] = [kind |-> "join_group", sel |-> {}, result |-> ""]]
          /\ UNCHANGED message
  /\ UNCHANGED <<serverVars, page, user, joinPageVars, groups>>

\* The backend handles POST /groups/{id}/join: the join of the caller's own
\* pending invitation.
ServerJoinGroup(c) ==
  /\ UNCHANGED <<gateVars, lifeVars>>
  /\ net[c].kind = "join_group" /\ net[c].result = ""
  /\ LET r == JoinCheck(TokenOf(user[c]), user[c], net[c].sel) IN
       /\ net' = [net EXCEPT ![c].result = r]
       /\ IF r = "ok"
          THEN JoinCommit(TokenOf(user[c]), user[c], net[c].sel)
          ELSE UNCHANGED serverVars
  /\ UNCHANGED <<page, user, joinPageVars, groupsPageVars>>

\* handleJoinGroup after its await: the banner, and on success fetchGroups.
handleJoinGroupDone(c) ==
  /\ UNCHANGED <<gateVars, lifeVars>>
  /\ net[c].kind = "join_group" /\ net[c].result # ""
  /\ message' = [message EXCEPT ![c] =
       IF net[c].result = "ok" THEN "Successfully joined group!" ELSE net[c].result]
  /\ net' = [net EXCEPT ![c] =
       IF net[c].result = "ok" THEN [Idle EXCEPT !.kind = "refresh"] ELSE Idle]
  /\ UNCHANGED <<serverVars, page, user, joinPageVars, groups>>

\* Leaving the page (no request in flight): the component state is dropped.
ClosePage(c) ==
  /\ dashboard' = [dashboard EXCEPT ![c] = NoDashboard]
  /\ serviceDetails' = [serviceDetails EXCEPT ![c] = NoDetails]
  /\ UNCHANGED <<costShown, formVars>>
  /\ UNCHANGED <<gateVars, paymentRequests, payCalls>>
  /\ page[c] # "closed" /\ net[c].kind = "idle" /\ payCalls[c] = NoPayCalls
  /\ selectedFinalTimeSlots' = [selectedFinalTimeSlots EXCEPT ![c] = 0]
  /\ bookedServices' = [bookedServices EXCEPT ![c] = FALSE]
  /\ showPaymentModal' = [showPaymentModal EXCEPT ![c] = FALSE]
  /\ actualCost' = [actualCost EXCEPT ![c] = ""]
  /\ userTimeSlotSelections' = [userTimeSlotSelections EXCEPT ![c] = {}]
  /\ timeSlotAnalyses' = [timeSlotAnalyses EXCEPT ![c] = NoAnalysis]
  /\ puts' = [puts EXCEPT ![c] = <<>>]
  /\ page' = [page EXCEPT ![c] = "closed"]
  /\ joinInfo' = [joinInfo EXCEPT ![c] = NoJoinInfo]
  /\ loading' = [loading EXCEPT ![c] = TRUE]
  /\ error' = [error EXCEPT ![c] = ""]
  /\ joining' = [joining EXCEPT ![c] = FALSE]
  /\ joined' = [joined EXCEPT ![c] = FALSE]
  /\ selectedTimeSlots' = [selectedTimeSlots EXCEPT ![c] = {}]
  /\ groups' = [groups EXCEPT ![c] = NoGroups]
  /\ message' = [message EXCEPT ![c] = ""]
  /\ user' = [user EXCEPT ![c] = 0]
  /\ token' = [token EXCEPT ![c] = 0]
  /\ UNCHANGED <<serverVars, net>>

\* ------------------------------------- Groups.tsx, the creator's actions
GroupCardShown(c) == page[c] = "groups" /\ groups[c].listed

\* handleFinalTimeSlotSelection: offered to the creator of a ready group in
\* the time slot section, which is rendered for groups that have time slots.
handleFinalTimeSlotSelection(c, s) ==
  /\ UNCHANGED dashVars
  /\ GroupCardShown(c) /\ isCreator(c) /\ isReady(c)
  /\ s \in groups[c].time_slots
  /\ selectedFinalTimeSlots' = [selectedFinalTimeSlots EXCEPT ![c] = s]
  /\ UNCHANGED <<memberVars, gateVars, bookedServices, showPaymentModal,
                 actualCost, payCalls, paymentRequests, slotPageVars>>

\* The Book Service button: the group is put into the session's bookedServices.
BookService(c) ==
  /\ UNCHANGED dashVars
  /\ GroupCardShown(c) /\ isCreator(c)
  /\ isReady(c) /\ selectedFinalTimeSlots[c] # 0
  /\ bookedServices' = [bookedServices EXCEPT ![c] = TRUE]
  /\ UNCHANGED <<memberVars, gateVars, selectedFinalTimeSlots, showPaymentModal,
                 actualCost, payCalls, paymentRequests, slotPageVars>>

\* The Confirm Booking and Request Payment From Group button.
OpenPaymentModal(c) ==
  /\ UNCHANGED dashVars
  /\ GroupCardShown(c) /\ isCreator(c) /\ bookedServices[c]
  /\ ~showPaymentModal[c]
  /\ showPaymentModal' = [showPaymentModal EXCEPT ![c] = TRUE]
  /\ actualCost' = [actualCost EXCEPT ![c] = ""]
  /\ UNCHANGED <<memberVars, gateVars, selectedFinalTimeSlots, bookedServices,
                 payCalls, paymentRequests, slotPageVars>>

\* What is typed into the cost field, and parseFloat of it (-1 stands for NaN).
CostInputs == {"0", "90"}
parseFloat(v) == IF v = "90" THEN 90 ELSE IF v = "0" THEN 0 ELSE -1
CostInvalid(v) == v = "" \/ parseFloat(v) <= 0

setActualCost(c, v) ==
  /\ UNCHANGED dashVars
  /\ showPaymentModal[c] /\ actualCost[c] # v
  /\ actualCost' = [actualCost EXCEPT ![c] = v]
  /\ UNCHANGED <<memberVars, gateVars, selectedFinalTimeSlots, bookedServices,
                 showPaymentModal, payCalls, paymentRequests, slotPageVars>>

\* The Cancel button of the payment modal.
CancelPaymentModal(c) ==
  /\ UNCHANGED dashVars
  /\ showPaymentModal[c]
  /\ showPaymentModal' = [showPaymentModal EXCEPT ![c] = FALSE]
  /\ actualCost' = [actualCost EXCEPT ![c] = ""]
  /\ UNCHANGED <<memberVars, gateVars, selectedFinalTimeSlots, bookedServices,
                 payCalls, paymentRequests, slotPageVars>>

PostsInFlight(c) ==
  payCalls[c].pending + payCalls[c].answered["ok"] + payCalls[c].answered["Conflict"]
    + payCalls[c].answered["NotFound"] + payCalls[c].answered["NotAuthorized"]

\* The Send Payment Requests button up to its await. Nothing keeps a second
\* click from posting while the first post is awaited.
SendPaymentRequests(c) ==
  /\ UNCHANGED dashVars
  /\ showPaymentModal[c] /\ ~CostInvalid(actualCost[c])
  /\ PostsInFlight(c) < MaxPosts
  /\ payCalls' = [payCalls EXCEPT ![c].pending = @ + 1]
  /\ UNCHANGED <<memberVars, gateVars, selectedFinalTimeSlots, bookedServices,
                 showPaymentModal, actualCost, paymentRequests, slotPageVars>>

\* perMemberCost in cents of a total in dollars, rounded half up.
perMemberCost(total, n) == (2 * total * 100 + n) \div (2 * n)

RECURSIVE Batch(_, _)
Batch(q, amount) ==
  IF q = <<>> THEN <<>>
  ELSE IF Head(q) = group.created_by THEN Batch(Tail(q), amount)
  ELSE <<[payer |-> Head(q), status |-> "pending", amount |-> amount]>>
         \o Batch(Tail(q), amount)

\* The total cost the backend has for the group. The post of the Groups page
\* carries description, preferred_method and payment_details, and no cost.
BackendCosts == {60, 90}

\* (a backend that generates a batch on every call)
generateEveryCall(caller) ==
  IF group.deleted THEN "NotFound"
  ELSE IF caller # group.created_by THEN "NotAuthorized"
  ELSE "ok"

\* generatePaymentRequests of the backend: one pending request per participant
\* other than the creator, once per group.
generatePaymentRequests(caller) ==
  IF group.deleted THEN "NotFound"
  ELSE IF caller # group.created_by THEN "NotAuthorized"
  ELSE IF paymentRequests # <<>> THEN "Conflict"
  ELSE "ok"

\* The backend handles one POST /groups/{id}/generate-payment-requests.
ServerGeneratePaymentRequests(c, total) ==
  /\ UNCHANGED dashVars
  /\ payCalls[c].pending > 0
  /\ LET r == generatePaymentRequests(user[c]) IN
       /\ payCalls' = [payCalls EXCEPT ![c].pending = @ - 1, ![c].answered[r] = @ + 1]
       /\ paymentRequests' =
            IF r = "ok"
            THEN paymentRequests
                   \o Batch(participants, perMemberCost(total, group.current_participants))
            ELSE paymentRequests
  /\ UNCHANGED <<memberVars, gateVars, selectedFinalTimeSlots, bookedServices,
                 showPaymentModal, actualCost, slotPageVars>>

\* The Send Payment Requests handler after its await.
SendPaymentRequestsDone(c, r) ==
  /\ UNCHANGED dashVars
  /\ payCalls[c].answered[r] > 0
  /\ payCalls' = [payCalls EXCEPT ![c].answered[r] = @ - 1]
  /\ IF r = "ok"
     THEN /\ showPaymentModal' = [showPaymentModal EXCEPT ![c] = FALSE]
          /\ actualCost' = [actualCost EXCEPT ![c] = ""]
          /\ message' = [message EXCEPT ![c] = "Payment requests sent"]
     ELSE /\ message' = [message EXCEPT ![c] = r]
          /\ UNCHANGED <<showPaymentModal, actualCost>>
  /\ UNCHANGED <<serverVars, page, user, joinPageVars, groups, net, gateVars,
                 selectedFinalTimeSlots, bookedServices, paymentRequests, slotPageVars>>

\* handleDeleteGroup up to its await, the confirm dialog answered with OK. The
\* Delete Group button is the creator's, for a group not in bookedServices.
handleDeleteGroup(c) ==
  /\ GroupCardShown(c) /\ isCreator(c) /\ ~bookedServices[c]
  /\ net[c].kind = "idle"
  /\ net' = [net EXCEPT ![c] = [kind |-> "delete", sel |-> {}, result |-> ""]]
  /\ UNCHANGED <<serverVars, page, user, joinPageVars, groupsPageVars, gateVars, lifeVars>>

\* deleteGroup of the backend.
deleteGroup(requester) ==
  IF group.deleted THEN "NotFound"
  ELSE IF requester # group.created_by THEN "NotAuthorized"
  ELSE IF group.status = "disbursed" THEN "InvalidTransition"
  ELSE "ok"

\* The backend handles DELETE /groups/{id}.
ServerDeleteGroup(c) ==
  /\ net[c].kind = "delete" /\ net[c].result = ""
  /\ LET r == deleteGroup(user[c]) IN
       /\ net' = [net EXCEPT ![c].result = r]
       /\ group' = IF r = "ok" THEN [group EXCEPT !.deleted = TRUE] ELSE group
  /\ UNCHANGED <<participants, pendingInvitees, selections, page, user, joinPageVars,
                 groupsPageVars, gateVars, lifeVars>>

\* handleDeleteGroup after its await: the banner, and on success fetchGroups.
handleDeleteGroupDone(c) ==
  /\ net[c].kind = "delete" /\ net[c].result # ""
  /\ message' = [message EXCEPT ![c] =
       IF net[c].result = "ok" THEN "Group deleted successfully!" ELSE net[c].result]
  /\ net' = [net EXCEPT ![c] =
       IF net[c].result = "ok" THEN [Idle EXCEPT !.kind = "refresh"] ELSE Idle]
  /\ UNCHANGED <<serverVars, page, user, joinPageVars, groups, gateVars, lifeVars>>

NextLife ==
  \/ \E c \in Clients, u \in Users : OpenGroupsPage(c, u)
  \/ \E c \in Clients : fetchGroups(c)
  \/ \E c \in Clients : handleJoinGroup(c)
  \/ \E c \in Clients : ServerJoinGroup(c)
  \/ \E c \in Clients : handleJoinGroupDone(c)
  \/ \E c \in Clients : ClosePage(c)
  \/ \E c \in Clients, s \in Slots : handleFinalTimeSlotSelection(c, s)
  \/ \E c \in Clients : BookService(c)
  \/ \E c \in Clients : handleDeleteGroup(c)
  \/ \E c \in Clients : ServerDeleteGroup(c)
  \/ \E c \in Clients : handleDeleteGroupDone(c)

NextPay ==
  \/ \E c \in Clients, u \in Users : OpenGroupsPage(c, u)
  \/ \E c \in Clients : fetchGroups(c)
  \/ \E c \in Clients : handleJoinGroup(c)
  \/ \E c \in Clients : ServerJoinGroup(c)
  \/ \E c \in Clients : handleJoinGroupDone(c)
  \/ \E c \in Clients : ClosePage(c)
  \/ \E c \in Clients, s \in Slots : handleFinalTimeSlotSelection(c, s)
  \/ \E c \in Clients : BookService(c)
  \/ \E c \in Clients : OpenPaymentModal(c)
  \/ \E c \in Clients, v \in CostInputs : setActualCost(c, v)
  \/ \E c \in Clients : CancelPaymentModal(c)
  \/ \E c \in Clients : SendPaymentRequests(c)
  \/ \E c \in Clients, total \in BackendCosts : ServerGeneratePaymentRequests(c, total)
  \/ \E c \in Clients, r \in PayResults : SendPaymentRequestsDone(c, r)

\* The groups the Groups page can find: forming or full, the first k invitees
\* having joined by their invitation links with every time slot selected.
Joined(k) == 1..k

RECURSIVE FirstInvitees(_)
FirstInvitees(k) == IF k = 0 THEN <<>> ELSE Append(FirstInvitees(k - 1), k)

MembershipInit ==
  \E max \in 2..MaxCapacity, slots \in {{}, Slots}, k \in 0..NumInvitees :
    /\ 1 + k <= max
    /\ group = [createGroup(max, slots) EXCEPT
                  !.current_participants = 1 + k,
                  !.status = IF 1 + k = max THEN "full" ELSE "forming"]
    /\ participants = <<0>> \o FirstInvitees(k)
    /\ pendingInvitees = Tokens \ Joined(k)
    /\ selections = [u \in Users |-> IF u \in Joined(k) THEN slots ELSE {}]

InitLife == MembershipInit /\ ClientInit /\ GateInit /\ LifeInit

SpecLife == InitLife /\ [][NextLife]_vars

SpecPay == InitLife /\ [][NextPay]_vars

\* ------------------------------------ Groups.tsx, the time slot section
\* handleTimeSlotToggle of the Groups page and updateUserTimeSlotSelections up
\* to its await: the checkboxes of a group that is not ready.
toggleTimeSlot(c, s) ==
  /\ GroupCardShown(c) /\ ~isReady(c) /\ s \in groups[c].time_slots
  /\ net[c].kind = "idle"
  /\ net' = [net EXCEPT ![c] =
       [kind |-> "update", result |-> "",
        sel |-> IF s \in userTimeSlotSelections[c]
                THEN userTimeSlotSelections[c] \ {s}
                ELSE userTimeSlotSelections[c] \cup {s}]]
  /\ UNCHANGED <<serverVars, page, user, joinPageVars, groupsPageVars, gateVars, lifeVars>>

\* (an update that is accepted in every status)
updateTimeSlotSelectionsAnyStatus(caller) ==
  IF group.deleted THEN "NotFound"
  ELSE IF ~InSeq(caller, participants) THEN "NotAuthorized"
  ELSE "ok"

\* updateTimeSlotSelections of the backend: replace-the-set, for a participant
\* of a forming group.
updateTimeSlotSelections(caller) ==
  IF group.deleted THEN "NotFound"
  ELSE IF ~InSeq(caller, participants) THEN "NotAuthorized"
  ELSE IF group.status # "forming" THEN "InvalidTransition"
  ELSE "ok"

\* The backend handles PUT /groups/{id}/user-time-slots.
ServerUpdateTimeSlots(c) ==
  /\ net[c].kind = "update" /\ net[c].result = ""
  /\ LET r == updateTimeSlotSelections(user[c]) IN
       /\ net' = [net EXCEPT ![c].result = r]
       /\ selections' = IF r = "ok" THEN [selections EXCEPT ![user[c]] = net[c].sel]
                        ELSE selections
  /\ UNCHANGED <<group, participants, pendingInvitees, page, user, joinPageVars,
                 groupsPageVars, gateVars, lifeVars>>

\* updateUserTimeSlotSelections after its await: the local copy, the analysis
\* fetched again, and the banner.
updateUserTimeSlotSelectionsDone(c) ==
  /\ UNCHANGED dashVars
  /\ net[c].kind = "update" /\ net[c].result # ""
  /\ IF net[c].result = "ok"
     THEN /\ userTimeSlotSelections' = [userTimeSlotSelections EXCEPT ![c] = net[c].sel]
          /\ timeSlotAnalyses' = [timeSlotAnalyses EXCEPT ![c] = analyze]
          /\ UNCHANGED puts
          /\ message' = [message EXCEPT ![c] = "Time slot selections updated successfully!"]
     ELSE /\ message' = [message EXCEPT ![c] = net[c].result]
          /\ UNCHANGED slotPageVars
  /\ net' = [net EXCEPT ![c] = Idle]
  /\ UNCHANGED <<serverVars, page, user, joinPageVars, groups, gateVars,
                 creatorPageVars, paymentRequests>>

\* A join by the invitation link, request and answer in one step: what the
\* Join page sends once its form is shown (the invitee's own token, at least
\* one time slot when the group has any) and the backend accepts.
JoinByLink(t, sel) ==
  /\ sel \subseteq group.time_slots /\ (group.time_slots # {} => sel # {})
  /\ JoinCheck(t, InviteeEmail(t), sel) = "ok"
  /\ JoinCommit(t, InviteeEmail(t), sel)
  /\ UNCHANGED <<page, user, joinPageVars, groupsPageVars, net, gateVars, lifeVars>>

\* The sessions that use the time slot section of the Groups page.
NumSlotSessions == 1
SlotSessions == 1..NumSlotSessions

NextSlots ==
  \/ \E t \in Tokens, sel \in SUBSET Slots : JoinByLink(t, sel)
  \/ \E c \in SlotSessions, u \in Users : OpenGroupsPage(c, u)
  \/ \E c \in SlotSessions : fetchGroups(c)
  \/ \E c \in SlotSessions, s \in Slots : toggleTimeSlot(c, s)
  \/ \E c \in SlotSessions : ServerUpdateTimeSlots(c)
  \/ \E c \in SlotSessions : updateUserTimeSlotSelectionsDone(c)
  \/ \E c \in SlotSessions : ClosePage(c)

\* Groups that have time slots.
InitSlots == Init /\ group.time_slots # {}

SpecSlots == InitSlots /\ [][NextSlots]_vars

\* ------------------- Groups.tsx, the checkboxes while an update is in flight
MaxPuts == 2           \* selection updates a session sends while its page is open

\* handleTimeSlotToggle of the Groups page and updateUserTimeSlotSelections up
\* to its await, with nothing to hold a click back while an earlier update is
\* in flight: the new selection is computed from the session's copy. The
\* record keeps the slot ticked, whether it was ticked on or off, and whether
\* an earlier update was still in flight.
handleTimeSlotToggleGroups(c, s) ==
  /\ GroupCardShown(c) /\ ~isReady(c) /\ s \in groups[c].time_slots
  /\ net[c].kind = "idle"
  /\ Len(puts[c]) < MaxPuts
  /\ puts' = [puts EXCEPT ![c] = Append(@,
       [slot |-> s, add |-> s \notin userTimeSlotSelections[c],
        sel |-> IF s \in userTimeSlotSelections[c]
                THEN userTimeSlotSelections[c] \ {s}
                ELSE userTimeSlotSelections[c] \cup {s},
        overlap |-> \E i \in 1..Len(@) : ~@[i].done,
        result |-> "", done |-> FALSE])]
  /\ UNCHANGED <<memberVars, gateVars, creatorPageVars, paymentRequests,
                 userTimeSlotSelections, timeSlotAnalyses, dashVars>>

\* The backend handles one of the PUT /groups/{id}/user-time-slots in flight.
ServerPut(c, i) ==
  /\ i \in 1..Len(puts[c]) /\ puts[c][i].result = ""
  /\ LET r == updateTimeSlotSelections(user[c]) IN
       /\ puts' = [puts EXCEPT ![c][i].result = r]
       /\ selections' = IF r = "ok" THEN [selections EXCEPT ![user[c]] = puts[c][i].sel]
                        ELSE selections
  /\ UNCHANGED <<group, participants, pendingInvitees, page, user, joinPageVars,
                 groupsPageVars, net, gateVars, creatorPageVars, paymentRequests,
                 userTimeSlotSelections, timeSlotAnalyses, dashVars>>

\* updateUserTimeSlotSelections after the await of one of them.
putDone(c, i) ==
  /\ i \in 1..Len(puts[c]) /\ puts[c][i].result # "" /\ ~puts[c][i].done
  /\ puts' = [puts EXCEPT ![c][i].done = TRUE]
  /\ IF puts[c][i].result = "ok"
     THEN /\ userTimeSlotSelections' =
               [userTimeSlotSelections EXCEPT ![c] = puts[c][i].sel]
          /\ timeSlotAnalyses' = [timeSlotAnalyses EXCEPT ![c] = analyze]
          /\ message' = [message EXCEPT ![c] = "Time slot selections updated successfully!"]
     ELSE /\ message' = [message EXCEPT ![c] = puts[c][i].result]
          /\ UNCHANGED <<userTimeSlotSelections, timeSlotAnalyses>>
  /\ UNCHANGED <<serverVars, page, user, joinPageVars, groups, net, gateVars,
                 creatorPageVars, paymentRequests, dashVars>>

NextToggles ==
  \/ \E t \in Tokens, sel \in SUBSET Slots : JoinByLink(t, sel)
  \/ \E c \in SlotSessions, u \in Users : OpenGroupsPage(c, u)
  \/ \E c \in SlotSessions : fetchGroups(c)
  \/ \E c \in SlotSessions, s \in Slots : handleTimeSlotToggleGroups(c, s)
  \/ \E c \in SlotSessions, i \in 1..MaxPuts : ServerPut(c, i)
  \/ \E c \in SlotSessions, i \in 1..MaxPuts : putDone(c, i)
  \/ \E c \in SlotSessions : ClosePage(c)

SpecToggles == InitSlots /\ [][NextToggles]_vars

\* --------------------------------- part_002, PaymentRequestDashboard
\* Mounting the dashboard of the group, by its creator.
OpenDashboard(c) ==
  /\ page[c] = "closed"
  /\ page' = [page EXCEPT ![c] = "dashboard"]
  /\ user' = [user EXCEPT ![c] = group.created_by]
  /\ UNCHANGED <<serverVars, joinPageVars, groupsPageVars, net, gateVars, lifeVars>>

\* fetchPaymentRequests, on mount.
fetchPaymentRequests(c) ==
  /\ page[c] = "dashboard" /\ dashboard[c].loading /\ net[c].kind = "idle"
  /\ dashboard' = [dashboard EXCEPT ![c].paymentRequests = paymentRequests,
                                    ![c].loading = FALSE]
  /\ UNCHANGED <<memberVars, gateVars, creatorPageVars, paymentRequests, slotPageVars,
                 serviceDetails, costShown, formVars>>

DashboardShown(c) == page[c] = "dashboard" /\ ~dashboard[c].loading

pendingRequests(c) ==
  {i \in 1..Len(dashboard[c].paymentRequests) :
     dashboard[c].paymentRequests[i].status = "pending"}

\* generatePaymentRequests of the dashboard up to its await: the button is
\* shown while the list is empty and is disabled while generating.
generateFromDashboard(c) ==
  /\ DashboardShown(c) /\ dashboard[c].paymentRequests = <<>>
  /\ ~dashboard[c].generating /\ net[c].kind = "idle"
  /\ dashboard' = [dashboard EXCEPT ![c].generating = TRUE, ![c].error = ""]
  /\ net' = [net EXCEPT ![c] = [kind |-> "generate", sel |-> {}, result |-> ""]]
  /\ UNCHANGED <<serverVars, page, user, joinPageVars, groupsPageVars, gateVars,
                 creatorPageVars, paymentRequests, slotPageVars,
                 serviceDetails, costShown, formVars>>

\* The backend handles the dashboard's POST generate-payment-requests.
ServerGenerateFromDashboard(c, total) ==
  /\ net[c].kind = "generate" /\ net[c].result = ""
  /\ LET r == generatePaymentRequests(user[c]) IN
       /\ net' = [net EXCEPT ![c].result = r]
       /\ paymentRequests' =
            IF r = "ok"
            THEN paymentRequests
                   \o Batch(participants, perMemberCost(total, group.current_participants))
            ELSE paymentRequests
  /\ UNCHANGED <<serverVars, page, user, joinPageVars, groupsPageVars, gateVars,
                 creatorPageVars, slotPageVars, dashVars>>

\* markAsPaid up to its await, for a request listed as pending.
markAsPaid(c, i) ==
  /\ DashboardShown(c) /\ i \in pendingRequests(c) /\ net[c].kind = "idle"
  /\ net' = [net EXCEPT ![c] = [kind |-> "mark", sel |-> {i}, result |-> ""]]
  /\ UNCHANGED <<serverVars, page, user, joinPageVars, groupsPageVars, gateVars, lifeVars>>

\* bulkMarkAsPaid up to its await: the requests the session lists as pending.
bulkMarkAsPaid(c) ==
  /\ DashboardShown(c) /\ pendingRequests(c) # {} /\ net[c].kind = "idle"
  /\ net' = [net EXCEPT ![c] = [kind |-> "bulk", sel |-> pendingRequests(c), result |-> ""]]
  /\ UNCHANGED <<serverVars, page, user, joinPageVars, groupsPageVars, gateVars, lifeVars>>

\* (a marking that flips the status)
markPaidFlips(request) ==
  [request EXCEPT !.status = IF @ = "pending" THEN "paid" ELSE "pending"]

\* markPaid of the backend: pending becomes paid, paid stays paid.
markPaid(request) == [request EXCEPT !.status = "paid"]

\* bulkMarkPaid of the backend; markPaid is the case of one id.
bulkMarkPaid(ids) ==
  [i \in 1..Len(paymentRequests) |->
     IF i \in ids THEN markPaid(paymentRequests[i]) ELSE paymentRequests[i]]

\* The backend handles mark-paid and bulk-mark-paid.
ServerMarkPaid(c) ==
  /\ net[c].kind \in {"mark", "bulk"} /\ net[c].result = ""
  /\ IF net[c].sel \subseteq 1..Len(paymentRequests)
     THEN /\ paymentRequests' = bulkMarkPaid(net[c].sel)
          /\ net' = [net EXCEPT ![c].result = "ok"]
     ELSE /\ net' = [net EXCEPT ![c].result = "NotFound"]
          /\ UNCHANGED paymentRequests
  /\ UNCHANGED <<serverVars, page, user, joinPageVars, groupsPageVars, gateVars,
                 creatorPageVars, slotPageVars, dashVars>>

\* generatePaymentRequests, markAsPaid and bulkMarkAsPaid after their await:
\* fetchPaymentRequests on success, the error otherwise.
dashboardDone(c) ==
  /\ net[c].kind \in {"generate", "mark", "bulk"} /\ net[c].result # ""
  /\ dashboard' = [dashboard EXCEPT
       ![c].paymentRequests = IF net[c].result = "ok" THEN paymentRequests ELSE @,
       ![c].error = IF net[c].result = "ok" THEN @ ELSE net[c].result,
       ![c].generating = IF net[c].kind = "generate" THEN FALSE ELSE @]
  /\ net' = [net EXCEPT ![c] = Idle]
  /\ UNCHANGED <<serverVars, page, user, joinPageVars, groupsPageVars, gateVars,
                 creatorPageVars, paymentRequests, slotPageVars,
                 serviceDetails, costShown, formVars>>

NextDash ==
  \/ \E c \in Clients : OpenDashboard(c)
  \/ \E c \in Clients : fetchPaymentRequests(c)
  \/ \E c \in Clients : generateFromDashboard(c)
  \/ \E c \in Clients, total \in BackendCosts : ServerGenerateFromDashboard(c, total)
  \/ \E c \in Clients, i \in 1..MaxCapacity : markAsPaid(c, i)
  \/ \E c \in Clients : bulkMarkAsPaid(c)
  \/ \E c \in Clients : ServerMarkPaid(c)
  \/ \E c \in Clients : dashboardDone(c)
  \/ \E c \in Clients : ClosePage(c)

SpecDash == InitLife /\ [][NextDash]_vars

\* --------------------------------- ServiceConfirmation.tsx, payment breakdown
\* Amounts are counted in cents. total_cost arrives as a double of dollars.
MaxCost == 150
Costs == 0..MaxCost \cup {43000}

\* The totals up to MaxCost + 1 and the example whose last cent digit is 5 and
\* whose double product totalAmount * 0.10 * 100 lies below the half:
\* 0.35 * 0.10 * 100 = 3.4999999999999996, 1.45 * 0.10 * 100 = 14.499999999999998
\* (0.05, 0.15, 0.25, 0.45, ... give the half itself or a little more).
ProductBelowHalf == {35, 145}

\* Math.round(totalAmount * 0.10 * 100): the nearest integer of the double
\* product, a half (or more) going up.
MathRoundTenth(total) ==
  IF total % 10 < 5 \/ (total % 10 = 5 /\ total \in ProductBelowHalf)
  THEN total \div 10
  ELSE total \div 10 + 1

\* serviceFee and cardAmount of the breakdown, as formatCurrency shows them.
serviceFee(total) == MathRoundTenth(total)
cardAmount(total) == total - serviceFee(total)

OpenConfirmation(c) ==
  /\ page[c] = "closed"
  /\ page' = [page EXCEPT ![c] = "confirmation"]
  /\ user' = [user EXCEPT ![c] = group.created_by]
  /\ UNCHANGED <<serverVars, joinPageVars, groupsPageVars, net, gateVars, lifeVars>>

\* fetchServiceDetails with the render that follows it.
fetchServiceDetails(c, total) ==
  /\ page[c] = "confirmation" /\ serviceDetails[c] = NoDetails
  /\ serviceDetails' = [serviceDetails EXCEPT ![c] =
       [total_cost |-> total, serviceFee |-> serviceFee(total),
        cardAmount |-> cardAmount(total)]]
  /\ UNCHANGED <<memberVars, gateVars, creatorPageVars, paymentRequests, slotPageVars,
                 dashboard, costShown, formVars>>

NextFee ==
  \/ \E c \in Clients : OpenConfirmation(c)
  \/ \E c \in Clients, total \in Costs : fetchServiceDetails(c, total)
  \/ \E c \in Clients : ClosePage(c)

SpecFee == InitLife /\ [][NextFee]_vars

\* --------------------------------- Groups.tsx, cost per member (in cents)
MaxTotal == 60
MaxMembers == 10
Totals == 0..MaxTotal \cup {9000, 43000}
MemberCounts == 2..MaxMembers

\* (the share cut down to whole dollars)
wholeDollars(total, n) == {((total \div n) \div 100) * 100}

\* (totalCost / totalMembers).toFixed(2): the cent nearest to the quotient.
\* A quotient that ends on half a cent is a double a little below or above
\* the half, and goes down or up accordingly.
costPerMember(total, n) ==
  IF (2 * total) % (2 * n) = n
  THEN {total \div n, total \div n + 1}
  ELSE {(2 * total + n) \div (2 * n)}

\* The breakdown is rendered for a total and a member count.
showCostPerMember(total, n) ==
  /\ \E share \in costPerMember(total, n) :
       costShown' = [total |-> total, members |-> n, costPerMember |-> share]
  /\ UNCHANGED <<memberVars, gateVars, creatorPageVars, paymentRequests, slotPageVars,
                 dashboard, serviceDetails, formVars>>

NextShare ==
  \E total \in Totals, n \in MemberCounts : showCostPerMember(total, n)

SpecShare == InitLife /\ [][NextShare]_vars

\* --------------------------------- Groups.tsx, time slots of the create form
maxTimeSlots == 5
SpringForward == 8     \* the day from which the clocks of a zone with dst are moved
StartDates == {1, 5}   \* dates picked in the start date input
Browsers ==
  [offset : {-5, 0, 1}, dst : BOOLEAN, today : {0}, hour : {0, 12}]

\* Date arithmetic on instants, counted in hours since day 0, 00:00 UTC.
\* new Date('YYYY-MM-DD') is midnight UTC of the day.
midnightUTC(day) == 24 * day

\* The offset of local time at a UTC instant and at a local time.
offsetAtUTC(t) ==
  browser.offset + (IF browser.dst /\ t - browser.offset >= 24 * SpringForward THEN 1 ELSE 0)
offsetAtLocal(l) ==
  browser.offset + (IF browser.dst /\ l >= 24 * SpringForward THEN 1 ELSE 0)

\* d.setDate(d.getDate() + days): the local date moves, the local time of
\* the day stays.
setDatePlus(t, days) ==
  LET l == t + offsetAtUTC(t)
      moved == 24 * ((l \div 24) + days) + (l % 24)
  IN  moved - offsetAtLocal(moved)

\* toISOString().split('T')[0]: the date in UTC.
isoDate(t) == t \div 24

\* (adding whatever the number of slots)
canAddAlways == TRUE

\* timeSlots.length < 5.
canAddTimeSlot == Len(createForm.timeSlots) < maxTimeSlots

\* addTimeSlot: from tomorrow, for 7 days; nothing when 5 slots exist.
addTimeSlot ==
  /\ LET startDate == setDatePlus(24 * browser.today + browser.hour, 1)
         endDate == setDatePlus(startDate, 6)
         newSlot == [start_date |-> isoDate(startDate), end_date |-> isoDate(endDate)]
     IN  createForm' = IF canAddTimeSlot
                       THEN [createForm EXCEPT !.timeSlots = Append(@, newSlot)]
                       ELSE createForm
  /\ UNCHANGED <<memberVars, gateVars, creatorPageVars, paymentRequests, slotPageVars,
                 dashboard, serviceDetails, costShown, browser>>

\* removeTimeSlot(index).
removeTimeSlot(index) ==
  /\ index \in 1..Len(createForm.timeSlots)
  /\ createForm' = [createForm EXCEPT !.timeSlots =
       [i \in 1..(Len(@) - 1) |-> IF i < index THEN @[i] ELSE @[i + 1]]]
  /\ UNCHANGED <<memberVars, gateVars, creatorPageVars, paymentRequests, slotPageVars,
                 dashboard, serviceDetails, costShown, browser>>

\* updateTimeSlot(index, field, value): the start date input is the only
\* caller, the end date input is read-only.
updateTimeSlot(index, field, value) ==
  /\ index \in 1..Len(createForm.timeSlots)
  /\ LET endDate == setDatePlus(midnightUTC(value), 6) IN
       createForm' = [createForm EXCEPT !.timeSlots[index] =
         IF field = "start_date"
         THEN [start_date |-> value, end_date |-> isoDate(endDate)]
         ELSE [@ EXCEPT !.end_date = value]]
  /\ UNCHANGED <<memberVars, gateVars, creatorPageVars, paymentRequests, slotPageVars,
                 dashboard, serviceDetails, costShown, browser>>

\* createGroup of the backend: more than 5 time slots are rejected.
createGroupCheck(slots) == IF slots > maxTimeSlots THEN "ValidationError" ELSE "ok"

\* handleCreateGroup with the answer of the backend: the form is emptied on
\* success.
handleCreateGroup ==
  /\ createForm' = [timeSlots |-> IF createGroupCheck(Len(createForm.timeSlots)) = "ok"
                                  THEN <<>> ELSE createForm.timeSlots,
                    posted |-> Len(createForm.timeSlots),
                    result |-> createGroupCheck(Len(createForm.timeSlots))]
  /\ UNCHANGED <<memberVars, gateVars, creatorPageVars, paymentRequests, slotPageVars,
                 dashboard, serviceDetails, costShown, browser>>

\* A create-with-payment post that does not come from the form, with slots
\* time slots.
postCreateGroup(slots) ==
  /\ createForm' = [createForm EXCEPT !.posted = slots, !.result = createGroupCheck(slots)]
  /\ UNCHANGED <<memberVars, gateVars, creatorPageVars, paymentRequests, slotPageVars,
                 dashboard, serviceDetails, costShown, browser>>

NextForm ==
  \/ addTimeSlot
  \/ \E index \in 1..maxTimeSlots : removeTimeSlot(index)
  \/ \E index \in 1..maxTimeSlots, value \in StartDates :
       updateTimeSlot(index, "start_date", value)
  \/ handleCreateGroup
  \/ \E slots \in 0..(maxTimeSlots + 1) : postCreateGroup(slots)

InitForm ==
  /\ group = createGroup(MaxCapacity, {})
  /\ participants = <<0>> /\ pendingInvitees = Tokens
  /\ selections = [u \in Users |-> {}]
  /\ ClientInit /\ GateInit /\ LifeInitBase
  /\ browser \in Browsers

SpecForm == InitForm /\ [][NextForm]_vars

Next ==
  \/ \E c \in Clients, u \in Users, t \in AnyToken : OpenJoinPage(c, u, t)
  \/ \E c \in Clients : fetchJoinInfo(c)
  \/ \E c \in Clients, s \in Slots : handleTimeSlotToggle(c, s)
  \/ \E c \in Clients : handleJoin(c)
  \/ \E c \in Clients : ServerJoin(c)
  \/ \E c \in Clients : handleJoinDone(c)
  \/ \E c \in Clients, u \in Users : OpenGroupsPage(c, u)
  \/ \E c \in Clients : fetchGroups(c)
  \/ \E c \in Clients : handleJoinGroup(c)
  \/ \E c \in Clients : ServerJoinGroup(c)
  \/ \E c \in Clients : handleJoinGroupDone(c)
  \/ \E c \in Clients : ClosePage(c)

Spec == Init /\ [][Next]_vars

\* ------------------------------------------------ CardSecurityProvider.tsx
isAccessBlocked == accessAttempts >= maxAccessAttempts

InFlight == Cardinality({g \in Cards : calls[g].pending})

\* The effect on accessAttempts: a change of the counter clears the pending
\* reset timeout and, at maxAccessAttempts or more, sets a new one.
AttemptResetEffect(old, new) ==
  IF new = old THEN resetTimer
  ELSE IF new >= maxAccessAttempts THEN attemptResetTimeMs \div TickMs
  ELSE -1

\* The catch branch of verifyCardAccess.
VerifyFailed(msg) ==
  /\ accessAttempts' = accessAttempts + 1
  /\ resetTimer' = AttemptResetEffect(accessAttempts, accessAttempts + 1)
  /\ isCardAccessVerified' = FALSE
  /\ thrown' = msg
  /\ UNCHANGED <<lastAccessTime, logoutTimers>>

\* verifyCardAccess(groupId) up to its await: blocked, too frequent, or the
\* request. A group has one call at a time.
verifyCardAccessToAwait(g) ==
  /\ ~calls[g].pending
  /\ IF isAccessBlocked
     THEN /\ thrown' = "AccessBlocked"
          /\ calls' = [calls EXCEPT ![g] = [age |-> 0, pending |-> FALSE]]
          /\ UNCHANGED <<isCardAccessVerified, lastAccessTime, accessAttempts,
                         resetTimer, logoutTimers>>
     ELSE IF lastAccessTime # -1 /\ lastAccessTime * TickMs < minSpacingMs
     THEN /\ VerifyFailed("TooFrequent")
          /\ calls' = [calls EXCEPT ![g] = [age |-> 0, pending |-> FALSE]]
     ELSE /\ calls' = [calls EXCEPT ![g] = [age |-> 0, pending |-> TRUE]]
          /\ UNCHANGED <<isCardAccessVerified, lastAccessTime, accessAttempts,
                         resetTimer, logoutTimers, thrown>>

\* verifyCardAccess called by a consumer that keeps no log.
verifyCardAccess(g) ==
  verifyCardAccessToAwait(g) /\ UNCHANGED <<memberVars, lifeVars, auditVars, cardVars>>

\* (a success that sets no automatic logout)
noAutoLogout == logoutTimers

\* setTimeout(resetSecurity, sessionTimeoutMs) of the success branch: one more
\* pending timeout; none is ever cleared.
setAutoLogout == logoutTimers \cup {sessionTimeoutMs \div TickMs}

\* What the backend answers to POST /groups/{id}/verify-card-access.
VerifyOutcomes ==
  {"granted", "AccessDenied", "NotAuthorized", "InstrumentNotFound", "InstrumentInactive"}

\* verifyCardAccess(groupId) after its await.
verifyCardAccessFromAwait(g, outcome) ==
  /\ calls[g].pending
  /\ calls' = [calls EXCEPT ![g].pending = FALSE]
  /\ IF outcome = "granted"
     THEN /\ isCardAccessVerified' = TRUE
          /\ lastAccessTime' = calls[g].age
          /\ accessAttempts' = 0
          /\ resetTimer' = AttemptResetEffect(accessAttempts, 0)
          /\ logoutTimers' = setAutoLogout
          /\ thrown' = "granted"
     ELSE VerifyFailed(outcome)

verifyCardAccessDone(g, outcome) ==
  verifyCardAccessFromAwait(g, outcome) /\ UNCHANGED <<memberVars, lifeVars, auditVars, cardVars>>

\* A due automatic logout timeout calls resetSecurity.
AutoLogout ==
  /\ 0 \in logoutTimers
  /\ logoutTimers' = logoutTimers \ {0}
  /\ isCardAccessVerified' = FALSE
  /\ lastAccessTime' = -1
  /\ UNCHANGED <<accessAttempts, resetTimer, calls, thrown>>
  /\ UNCHANGED <<memberVars, lifeVars, auditVars, cardVars>>

\* The due attempt reset timeout: setAccessAttempts(0).
AttemptReset ==
  /\ resetTimer = 0
  /\ accessAttempts' = 0
  /\ resetTimer' = -1
  /\ UNCHANGED <<isCardAccessVerified, lastAccessTime, logoutTimers, calls, thrown>>
  /\ UNCHANGED <<memberVars, lifeVars, auditVars, cardVars>>

\* resetSecurity, called by a consumer.
resetSecurity ==
  /\ isCardAccessVerified \/ lastAccessTime # -1
  /\ isCardAccessVerified' = FALSE
  /\ lastAccessTime' = -1
  /\ UNCHANGED <<accessAttempts, resetTimer, logoutTimers, calls, thrown>>
  /\ UNCHANGED <<memberVars, lifeVars, auditVars, cardVars>>

\* checkSessionTimeout, the interval callback, for a lastAccessTime aged a.
SessionExpired(a) == a # -1 /\ a * TickMs > sessionTimeoutMs

Older(a) == IF a = -1 THEN -1 ELSE IF a < MaxAge THEN a + 1 ELSE MaxAge

\* Five minutes pass (no timeout is due), and the interval callback runs.
Tick ==
  /\ resetTimer # 0 /\ 0 \notin logoutTimers
  /\ resetTimer' = IF resetTimer > 0 THEN resetTimer - 1 ELSE resetTimer
  /\ logoutTimers' = {t - 1 : t \in logoutTimers}
  /\ calls' = [g \in Cards |-> [calls[g] EXCEPT !.age = Older(@)]]
  /\ IF SessionExpired(Older(lastAccessTime))
     THEN isCardAccessVerified' = FALSE /\ lastAccessTime' = -1
     ELSE lastAccessTime' = Older(lastAccessTime) /\ UNCHANGED isCardAccessVerified
  /\ UNCHANGED <<accessAttempts, thrown>>
  /\ UNCHANGED <<memberVars, lifeVars, auditVars, cardVars>>

NextGate ==
  \/ \E g \in Cards : verifyCardAccess(g)
  \/ \E g \in Cards, outcome \in VerifyOutcomes : verifyCardAccessDone(g, outcome)
  \/ AutoLogout
  \/ AttemptReset
  \/ resetSecurity
  \/ Tick

\* The security gate on its own, over a group that nobody is joining.
InitGate ==
  /\ group = createGroup(MaxCapacity, {})
  /\ participants = <<0>> /\ pendingInvitees = Tokens
  /\ selections = [u \in Users |-> {}]
  /\ ClientInit /\ GateInit /\ LifeInit

SpecGate == InitGate /\ [][NextGate]_vars


\* ------------------------------------------- VirtualCardDetails.tsx, the view
MaxTx == 2             \* transactions of a card
TxAmounts == {100, 250}
TxStatuses == {"approved", "declined"}
Transactions == [amount : TxAmounts, status : TxStatuses]
TxLists == UNION {[1..n -> Transactions] : n \in 0..MaxTx}
Limits == {-1, 0, 200, 300}

\* fetchGroupDetails with fetchTransactions and checkCardStatus, which it
\* starts: the details of the group, its transactions, the status of its card.
fetchGroupDetails(g, limit, txs) ==
  /\ cardView[g].loading
  /\ cardView' = [cardView EXCEPT ![g].loading = FALSE,
                                  ![g].card_spending_limit = limit,
                                  ![g].transactions = txs,
                                  ![g].cardFrozen = instrument[g].frozen]
  /\ UNCHANGED <<memberVars, lifeVars, isCardAccessVerified, lastAccessTime,
                 accessAttempts, resetTimer, logoutTimers, calls, thrown, auditVars,
                 instrument>>

RECURSIVE sumAmounts(_)
sumAmounts(txs) ==
  IF txs = <<>> THEN 0 ELSE Head(txs).amount + sumAmounts(Tail(txs))

\* (the total of every transaction, whatever its status)
totalOfAll(txs) == sumAmounts(txs)

\* transactions.filter(tx => tx.status === 'approved').reduce(sum + tx.amount).
totalSpent(txs) == sumAmounts(SelectSeq(txs, LAMBDA tx : tx.status = "approved"))

\* calculateRemainingBalance, in cents: the limit is in dollars and the
\* amounts are in cents, which the code divides by 100.
calculateRemainingBalance(g) ==
  IF cardView[g].card_spending_limit <= 0 THEN 0
  ELSE IF cardView[g].card_spending_limit - totalSpent(cardView[g].transactions) > 0
       THEN cardView[g].card_spending_limit - totalSpent(cardView[g].transactions)
       ELSE 0

NextBalance ==
  \E g \in Cards, limit \in Limits, txs \in TxLists : fetchGroupDetails(g, limit, txs)

SpecBalance == InitGate /\ [][NextBalance]_vars

\* ------------------------------- VirtualCardDetails.tsx, useSecurityMonitoring
MaxEvents == 6         \* events logged in a run

\* setSecurityEvents(prev => [...prev.slice(-9), logEntry]).
keepLast == 9
logSecurityEvent(events, event) ==
  (IF Len(events) <= keepLast THEN events
   ELSE SubSeq(events, Len(events) - keepLast + 1, Len(events))) \o <<event>>

\* POST security-log: the backend appends the event to the log of the group.
securityLog(log, g, event) == Append(log, [group |-> g, event |-> event])

\* handleRevealCard up to its await; the button is disabled while the card is
\* loading and while access is blocked. A call refused as too frequent is
\* logged as denied in the same step.
handleRevealCard(g) ==
  /\ ~cardView[g].loading /\ ~cardView[g].cardRevealed
  /\ ~isAccessBlocked
  /\ Len(auditLog) + 2 <= MaxEvents
  /\ verifyCardAccessToAwait(g)
  /\ LET refused == thrown' = "TooFrequent" /\ ~calls'[g].pending
         first == logSecurityEvent(securityEvents[g], "initiated")
         sent == securityLog(auditLog, g, "initiated")
     IN  /\ securityEvents' = [securityEvents EXCEPT ![g] =
                IF refused THEN logSecurityEvent(first, "denied") ELSE first]
         /\ auditLog' = IF refused THEN securityLog(sent, g, "denied") ELSE sent
  /\ UNCHANGED <<memberVars, lifeVars, cardVars>>

\* handleRevealCard after its await: granted or denied, and logged.
handleRevealCardDone(g, outcome) ==
  /\ verifyCardAccessFromAwait(g, outcome)
  /\ LET event == IF outcome = "granted" THEN "granted" ELSE "denied" IN
       /\ securityEvents' = [securityEvents EXCEPT ![g] = logSecurityEvent(@, event)]
       /\ auditLog' = securityLog(auditLog, g, event)
  /\ cardView' = [cardView EXCEPT ![g].cardRevealed = @ \/ outcome = "granted"]
  /\ UNCHANGED <<memberVars, lifeVars, instrument>>

NextAudit ==
  \/ \E g \in Cards : fetchGroupDetails(g, 300, <<>>)
  \/ \E g \in Cards : handleRevealCard(g)
  \/ \E g \in Cards, outcome \in VerifyOutcomes : handleRevealCardDone(g, outcome)
  \/ AutoLogout
  \/ AttemptReset
  \/ Tick

SpecAudit == InitGate /\ [][NextAudit]_vars

\* ------------------------------- VirtualCardDetails.tsx, the card controls
\* What the backend answers to a verify for group g: a frozen instrument is
\* refused as inactive.
verifyAnswers(g) ==
  IF instrument[g].frozen THEN VerifyOutcomes \ {"granted"} ELSE VerifyOutcomes

\* handleFreezeCard with the answer to its post: the action is chosen from
\* cardFrozen, and both its start and its success are logged. The button is
\* among the card controls, rendered once the card is revealed.
handleFreezeCard(g) ==
  /\ ~cardView[g].loading /\ cardView[g].cardRevealed
  /\ Len(auditLog) + 2 <= MaxEvents
  /\ LET action == IF cardView[g].cardFrozen THEN "unfreeze" ELSE "freeze" IN
       /\ instrument' = [instrument EXCEPT ![g].frozen = (action = "freeze")]
       /\ cardView' = [cardView EXCEPT ![g].cardFrozen = ~@]
       /\ securityEvents' = [securityEvents EXCEPT ![g] =
            logSecurityEvent(logSecurityEvent(@, action), action)]
       /\ auditLog' = securityLog(securityLog(auditLog, g, action), g, action)
  /\ UNCHANGED <<memberVars, lifeVars, isCardAccessVerified, lastAccessTime,
                 accessAttempts, resetTimer, logoutTimers, calls, thrown>>

\* The view of group g is left and opened again: its state starts anew, the
\* provider above it stays.
remountView(g) ==
  /\ ~cardView[g].loading /\ ~calls[g].pending
  /\ cardView' = [cardView EXCEPT ![g] = NoCardView]
  /\ securityEvents' = [securityEvents EXCEPT ![g] = <<>>]
  /\ UNCHANGED <<memberVars, lifeVars, isCardAccessVerified, lastAccessTime,
                 accessAttempts, resetTimer, logoutTimers, calls, thrown, auditLog,
                 instrument>>

NextCard ==
  \/ \E g \in Cards : fetchGroupDetails(g, 300, <<>>)
  \/ \E g \in Cards : handleRevealCard(g)
  \/ \E g \in Cards : \E outcome \in verifyAnswers(g) : handleRevealCardDone(g, outcome)
  \/ \E g \in Cards : handleFreezeCard(g)
  \/ \E g \in Cards : remountView(g)
  \/ AutoLogout
  \/ AttemptReset
  \/ Tick

SpecCard == InitGate /\ [][NextCard]_vars

\* ------------------------------------------------- membership properties
\* The join requests in flight, those the backend has answered, and the
\* invitation each one names.
JoinRequests == {c \in Clients : net[c].kind \in {"join", "join_group"}}
Answered == {c \in JoinRequests : net[c].result # ""}
Accepted == {c \in Answered : net[c].result = "ok"}
ReqToken(c) == IF net[c].kind = "join" THEN token[c] ELSE TokenOf(user[c])

\* C1: in every reachable state, whatever the interleaving of the joins,
\* current_participants is at most max_participants.
C1_CapacityNeverExceeded ==
  group.current_participants <= group.max_participants

\* C1 witness: the group is full and a further join has been refused.
C1_Witness ==
  /\ group.current_participants = group.max_participants
  /\ \E c \in Answered : net[c].result = "GroupFull"

\* A request that names a valid invitation of its own caller, with a selection
\* where the group asks for one (its token is still pending unless it is the
\* request that consumed it).
ValidRequest(c) ==
  /\ ReqToken(c) \in Tokens
  /\ user[c] = InviteeEmail(ReqToken(c))
  /\ (group.time_slots = {} \/ net[c].sel # {})
  /\ (c \notin Accepted => ReqToken(c) \in pendingInvitees)

\* Two or more valid joins with distinct tokens, in flight together, answered
\* from a group that had one free place before the first of them was handled.
OneSlotRace ==
  /\ Cardinality(Answered) >= 2
  /\ \A c \in Answered : ValidRequest(c)
  /\ \A c, d \in Answered : c # d => ReqToken(c) # ReqToken(d)
  /\ group.current_participants - Cardinality(Accepted) = group.max_participants - 1

\* C2: of the concurrent joins for the last free place exactly one succeeds;
\* every other one fails with GroupFull, creates no Participant and leaves
\* current_participants alone.
C2_ExactlyOneJoinsLastSlot ==
  OneSlotRace =>
    /\ Cardinality(Accepted) = 1
    /\ \A c \in Answered \ Accepted :
         net[c].result = "GroupFull" /\ ~InSeq(user[c], participants)
    /\ group.current_participants = group.max_participants
    /\ Len(participants) = group.max_participants

\* C2 witness: such a race has been decided.
C2_Witness == OneSlotRace /\ Cardinality(Accepted) = 1

\* A session on the Join page whose user is not the invitee of the link.
Mismatched(c) ==
  page[c] = "join" /\ joinInfo[c].loaded /\ user[c] # joinInfo[c].invitee_email

\* C7: a caller whose email differs from the invitee's is refused (the
\* Invitation Mismatch view) and nothing changes: no join request leaves the
\* session, the session never shows joined, the caller is no Participant by
\* that link, the counter counts the consumed invitations only and the
\* invitee is still pending.
C7_IdentityMismatchMutatesNothing ==
  /\ \A c \in Clients : Mismatched(c) =>
       /\ JoinView(c) \in {"loading", "mismatch"}
       /\ net[c].kind = "idle" /\ ~joining[c] /\ ~joined[c]
  /\ \A t \in Tokens : t \notin pendingInvitees => InSeq(InviteeEmail(t), participants)
  /\ group.current_participants = 1 + Cardinality(Tokens \ pendingInvitees)

\* C7 witness: a mismatched caller is shown the refusal while the invitee of
\* the link is still pending.
C7_Witness ==
  \E c \in Clients :
    Mismatched(c) /\ JoinView(c) = "mismatch" /\ token[c] \in pendingInvitees

\* C8: no join is performed with an empty selection on a group that has time
\* slots (the handlers refuse before any request is sent, so nothing changes),
\* and an empty selection on a group without time slots is never refused for
\* the missing selection.
C8_EmptySelectionRefusedIffSlots ==
  /\ \A c \in JoinRequests : group.time_slots # {} => net[c].sel # {}
  /\ \A c \in Answered : net[c].result # "TimeSlotSelectionRequired"
  /\ \A c \in Clients : error[c] = "TimeSlotSelectionRequired" =>
       group.time_slots # {} /\ net[c].kind = "idle" /\ ~joined[c]
  /\ \A i \in 2..Len(participants) : group.time_slots # {} => selections[participants[i]] # {}

\* C8 witness: handleJoin has refused an empty selection; the caller is no
\* Participant and the invitation is still pending.
C8_Witness ==
  \E c \in Clients :
    /\ error[c] = "TimeSlotSelectionRequired" /\ selectedTimeSlots[c] = {}
    /\ ~InSeq(user[c], participants) /\ token[c] \in pendingInvitees

\* C9: a token is single-use: once a join with it has succeeded it is consumed,
\* a later join with the same token fails with InvalidOrExpiredToken, and no
\* token yields more than one Participant.
C9_TokenSingleUse ==
  /\ \A c \in Accepted : ReqToken(c) \notin pendingInvitees
  /\ \A c, d \in Answered :
       (c # d /\ ReqToken(c) = ReqToken(d) /\ net[c].result = "ok")
         => net[d].result = "InvalidOrExpiredToken"
  /\ \A i, j \in 1..Len(participants) : participants[i] = participants[j] => i = j
  /\ Len(participants) = 1 + Cardinality(Tokens \ pendingInvitees)

\* C9 witness: a second join with a consumed token has been refused.
C9_Witness ==
  \E c, d \in Answered :
    /\ c # d /\ ReqToken(c) = ReqToken(d)
    /\ net[c].result = "ok" /\ net[d].result = "InvalidOrExpiredToken"

\* ----------------------------------------------- security gate properties

\* C3: once accessAttempts has reached maxAccessAttempts the gate stays blocked
\* and grants nothing until the attempt reset timeout has run: the counter
\* leaves the blocked range only by that timeout setting it to 0, and no step
\* taken while blocked verifies the session.
C3_BlockedUntilCooldown ==
  [][isAccessBlocked =>
       /\ (accessAttempts' < maxAccessAttempts => resetTimer = 0 /\ accessAttempts' = 0)
       /\ (isCardAccessVerified' => isCardAccessVerified)]_vars

\* --------------------------------------------------- lifecycle properties
ForwardEdges ==
  {<<"forming", "full">>, <<"full", "booked">>, <<"booked", "service_confirmed">>,
   <<"service_confirmed", "disbursed">>}

\* The status of the group as session c holds it: booked once the group is in
\* the session's bookedServices, else the status the backend keeps.
StatusHeld(c) == IF bookedServices[c] THEN "booked" ELSE group.status

\* C6: the status of the group changes only along a forward edge; no step
\* moves it backward or across another edge.
C6_StatusOnlyForward ==
  [][\A c \in Clients :
       \/ StatusHeld(c)' = StatusHeld(c)
       \/ <<StatusHeld(c), StatusHeld(c)'>> \in ForwardEdges]_vars

\* C10: a step that deletes the group is taken for its creator and while the
\* status of the group is forming or full in every session of the creator.
C10_DeleteOnlyBeforeBooking ==
  [][(~group.deleted /\ group'.deleted) =>
       \E c \in Clients :
          /\ net[c].kind = "delete" /\ net'[c].result = "ok"
          /\ user[c] = group.created_by
          /\ \A d \in Clients : StatusHeld(d) \in {"forming", "full"}]_vars

\* ----------------------------------------------------- payment properties
RequestsOf(u) == {i \in 1..Len(paymentRequests) : paymentRequests[i].payer = u}

OkReplies(c) == payCalls[c].answered["ok"]

\* C4: however often, and however concurrently, generation is posted, the group
\* has at most one batch: one pending request for each participant other than
\* the creator and none else, and at most one of the posts is answered ok.
C4_OneBatchOfPaymentRequests ==
  /\ paymentRequests # <<>> =>
       /\ Len(paymentRequests) = group.current_participants - 1
       /\ \A u \in Users :
            Cardinality(RequestsOf(u)) =
              IF InSeq(u, participants) /\ u # group.created_by THEN 1 ELSE 0
  /\ \A c \in Clients, d \in Clients :
       /\ OkReplies(c) <= 1
       /\ c # d => OkReplies(c) + OkReplies(d) <= 1

\* A double submission: two posts of one session in flight together, the first
\* answered ok and the second Conflict, and the batch is there once.
C4_Witness ==
  \E c \in Clients :
    /\ payCalls[c].answered["ok"] = 1 /\ payCalls[c].answered["Conflict"] = 1
    /\ Len(paymentRequests) = group.current_participants - 1
    /\ paymentRequests # <<>>

\* ---------------------------------------------------- analysis properties
EveryParticipantSelected(s) ==
  \A i \in 1..Len(participants) : s \in selections[participants[i]]

\* C5: after any joins and selection updates the analysis flags a time slot of
\* the group as universal exactly when every current participant has selected
\* it, and its count is the number of participants that have.
C5_UniversalIffAllSelected ==
  \A s \in group.time_slots :
    /\ s \in analyze.universal <=> EveryParticipantSelected(s)
    /\ s \in analyze.universal <=> analyze.count[s] = group.current_participants
    /\ analyze.count[s] =
         Cardinality({u \in Users : InSeq(u, participants) /\ s \in selections[u]})

\* A slot that a session saw as universal is no longer universal in the
\* analysis, a member that has not selected it having joined since.
C5_Witness ==
  \E c \in Clients, s \in group.time_slots :
    /\ timeSlotAnalyses[c].loaded /\ s \in timeSlotAnalyses[c].universal
    /\ s \notin analyze.universal
    /\ \E i \in 1..Len(participants) :
         /\ participants[i] # user[c]
         /\ s \notin selections[participants[i]]
         /\ selections[participants[i]] # {}

\* --------------------------------------------------- selection properties
UpdateAnswered(c) ==
  net[c].kind = "update" /\ net[c].result = "" /\ net'[c].result # ""

\* C11: stored selections change only by the member's own join or by an update
\* that is answered ok, which is given only while the group is forming and
\* leaves exactly the submitted set; every other answer leaves them unchanged.
C11_UpdateReplacesWhileForming ==
  [][/\ \A u \in Users : selections'[u] # selections[u] =>
          \/ ~InSeq(u, participants) /\ InSeq(u, participants')
          \/ \E c \in Clients :
               /\ UpdateAnswered(c) /\ user[c] = u /\ net'[c].result = "ok"
               /\ selections'[u] = net[c].sel
     /\ \A c \in Clients : UpdateAnswered(c) =>
          /\ net'[c].result = "ok" => group.status = "forming"
          /\ net'[c].result = "ok" => selections'[user[c]] = net[c].sel
          /\ net'[c].result # "ok" => selections' = selections
          /\ group.status # "forming" => net'[c].result # "ok"]_vars

\* An update sent from a page that still shows the group as not ready is
\* rejected, the group having become full, and the stored set is kept.
C11_Witness ==
  \E c \in Clients :
    /\ net[c].kind = "update" /\ net[c].result = "InvalidTransition"
    /\ group.status = "full" /\ InSeq(user[c], participants)
    /\ selections[user[c]] # net[c].sel

\* --------------------------------------------------- final slot properties
\* The final time slot session c displays for the group, 0 when it shows none.
FinalSlotShown(c) == selectedFinalTimeSlots[c]

\* A session of a participant that displays the ready group.
ShowsReadyGroup(d) ==
  GroupCardShown(d) /\ isReady(d) /\ InSeq(user[d], participants)

\* C12: a final time slot is set only for a full group, only by its creator
\* and is one of the group's time slots; once it is set, every participant
\* that displays the group sees that same slot.
C12_FinalSlotSeenByAll ==
  \A c \in Clients : FinalSlotShown(c) # 0 =>
    /\ group.status = "full" /\ user[c] = group.created_by
    /\ FinalSlotShown(c) \in group.time_slots
    /\ \A d \in Clients : ShowsReadyGroup(d) => FinalSlotShown(d) = FinalSlotShown(c)

\* C13: the batch holds one pending request for each participant other than
\* the creator and none for the creator, each of the actual cost the creator
\* has entered in the payment modal divided by the number of participants.
C13_AmountIsShareOfActualCost ==
  \A i \in 1..Len(paymentRequests) :
    /\ paymentRequests[i].payer # group.created_by
    /\ InSeq(paymentRequests[i].payer, participants)
    /\ \A v \in CostInputs : ~CostInvalid(v) =>
         paymentRequests[i].amount = perMemberCost(parseFloat(v), group.current_participants)

\* C14: a payment request that is paid stays paid in every step, and marking
\* is always answered ok and leaves every marked request paid and every other
\* request as it was, whether or not a marked request was paid already.
C14_PaidIsFinal ==
  [][/\ \A i \in 1..Len(paymentRequests) : paymentRequests[i].status = "paid" =>
          i <= Len(paymentRequests') /\ paymentRequests'[i].status = "paid"
     /\ \A c \in Clients :
          (net[c].kind \in {"mark", "bulk"} /\ net[c].result = "" /\ net'[c].result # "") =>
            /\ net'[c].result = "ok"
            /\ Len(paymentRequests') = Len(paymentRequests)
            /\ \A i \in 1..Len(paymentRequests) :
                 IF i \in net[c].sel
                 THEN paymentRequests'[i] = [paymentRequests[i] EXCEPT !.status = "paid"]
                 ELSE paymentRequests'[i] = paymentRequests[i]]_vars

\* A request is marked a second time, by a session whose list is older: both
\* marks are answered ok and the request is paid.
C14_Witness ==
  \E c \in Clients, d \in Clients, i \in 1..Len(paymentRequests) :
    /\ c # d /\ paymentRequests[i].status = "paid"
    /\ net[c].kind = "mark" /\ net[c].sel = {i} /\ net[c].result = "ok"
    /\ net[d].kind \in {"mark", "bulk"} /\ i \in net[d].sel /\ net[d].result = "ok"

\* Rounding to the cent of a tenth of the total, a half going up and a half
\* going to the even cent.
RoundHalfUp(total) == (total + 5) \div 10
RoundHalfEven(total) ==
  IF total % 10 = 5 /\ (total \div 10) % 2 = 0 THEN total \div 10 ELSE RoundHalfUp(total)

\* C15: for every total cost the fee shown is 10% of it rounded to the cent,
\* the disbursable amount is the total less the fee, the two add up to the
\* total, the disbursable amount lies between 0 and the total, and a total
\* of 430.00 gives a fee of 43.00 and 387.00 to disburse.
C15_FeeIsTenthRounded ==
  \A c \in Clients : serviceDetails[c] # NoDetails =>
    LET b == serviceDetails[c] IN
      /\ b.serviceFee \in {RoundHalfUp(b.total_cost), RoundHalfEven(b.total_cost)}
      /\ b.cardAmount = b.total_cost - b.serviceFee
      /\ b.serviceFee + b.cardAmount = b.total_cost
      /\ 0 <= b.cardAmount /\ b.cardAmount <= b.total_cost
      /\ b.total_cost = 43000 => b.serviceFee = 4300 /\ b.cardAmount = 38700

\* A verifyCardAccess call is answered with a grant in this step.
Granted == InFlight' < InFlight /\ thrown' = "granted"

\* C16: a successful verification leaves the session verified with no failed
\* attempt counted and with its automatic logout pending; a verified session
\* always has a logout pending that is due at most sessionTimeoutMs after the
\* latest success, and time does not pass a due logout, which locks the session.
C16_VerifiedForSessionTimeout ==
  [][/\ Granted => /\ isCardAccessVerified' /\ accessAttempts' = 0
                   /\ sessionTimeoutMs \div TickMs \in logoutTimers'
     /\ isCardAccessVerified' =>
          /\ logoutTimers' # {}
          /\ \A t \in logoutTimers' : 0 <= t /\ t * TickMs <= sessionTimeoutMs
     /\ 0 \in logoutTimers =>
          /\ logoutTimers' \in {logoutTimers, logoutTimers \ {0}, setAutoLogout}
          /\ (0 \notin logoutTimers' => ~isCardAccessVerified' /\ lastAccessTime' = -1)]_vars

\* The session has stayed verified since a success sessionTimeoutMs ago: its
\* logout is due now.
C16_Witness ==
  /\ isCardAccessVerified /\ accessAttempts = 0 /\ thrown = "granted"
  /\ logoutTimers = {0}

\* A verifyCardAccess call is answered with the failure o in this step.
AnsweredWith(o) == InFlight' < InFlight /\ thrown' = o

\* C17: a verification refused with NotAuthorized leaves accessAttempts as it
\* was, and a verification that fails in any other way adds one to it.
C17_NotAuthorizedNotCounted ==
  [][/\ AnsweredWith("NotAuthorized") => accessAttempts' = accessAttempts
     /\ \A o \in VerifyOutcomes \ {"granted", "NotAuthorized"} :
          AnsweredWith(o) => accessAttempts' = accessAttempts + 1]_vars

\* A request for group g goes to the backend in this step.
Sent(g) == ~calls[g].pending /\ calls'[g].pending

\* C18: attempts are at least minSpacingMs apart: a request goes to the
\* backend only if the previous attempt for the group, granted or failed, was
\* made minSpacingMs or longer ago (a sooner one fails with TooFrequent).
C18_MinimumSpacing ==
  [][\A g \in Cards : Sent(g) =>
       calls[g].age = -1 \/ calls[g].age * TickMs >= minSpacingMs]_vars

\* What the card of group h reads from the context of the provider.
VerifiedFor(h) == isCardAccessVerified
FailedAttemptsFor(h) == accessAttempts
BlockedFor(h) == isAccessBlocked

\* This step is an attempt for group g, or the answer to one.
CardStep(g) ==
  \/ calls'[g].pending # calls[g].pending
  \/ calls'[g].age = 0 /\ calls[g].age # 0

\* C19: an attempt for one group and its answer leave the verified flag, the
\* failed attempts and the blocked state of every other group as they were.
C19_ScopedPerGroup ==
  [][\A g \in Cards, h \in Cards : (g # h /\ CardStep(g)) =>
       /\ VerifiedFor(h)' = VerifiedFor(h)
       /\ FailedAttemptsFor(h)' = FailedAttemptsFor(h)
       /\ BlockedFor(h)' = BlockedFor(h)]_vars

\* The gate leaves one of its states in this step: the verified flag or the
\* failed attempts change (to verified, to a failed attempt more, to blocked,
\* back to locked, back to no failed attempt).
GateTransition ==
  isCardAccessVerified' # isCardAccessVerified \/ accessAttempts' # accessAttempts

\* C20: every step in which the gate changes state adds an event to the
\* security log, and the log only grows at its end: what was recorded stays.
C20_EveryTransitionLogged ==
  [][/\ GateTransition => Len(auditLog') > Len(auditLog)
     /\ Len(auditLog') >= Len(auditLog)
     /\ SubSeq(auditLog', 1, Len(auditLog)) = auditLog]_vars

\* ----------------------------------------------------- card view properties
RECURSIVE ApprovedTotal(_)
ApprovedTotal(txs) ==
  IF txs = <<>> THEN 0
  ELSE (IF Head(txs).status = "approved" THEN Head(txs).amount ELSE 0)
         + ApprovedTotal(Tail(txs))

WithoutDeclined(txs) == SelectSeq(txs, LAMBDA tx : tx.status # "declined")

\* C21: the remaining balance shown for a card with a limit is the limit less
\* the total of its approved transactions and never less than 0: it is 0 once
\* that total reaches the limit, and declined transactions do not count.
C21_RemainingBalance ==
  \A g \in Cards : (~cardView[g].loading /\ cardView[g].card_spending_limit >= 0) =>
    LET limit == cardView[g].card_spending_limit
        approved == ApprovedTotal(cardView[g].transactions)
    IN  /\ approved < limit => calculateRemainingBalance(g) = limit - approved
        /\ approved >= limit => calculateRemainingBalance(g) = 0
        /\ ApprovedTotal(WithoutDeclined(cardView[g].transactions)) = approved

\* A card whose approved transactions exceed its limit, with a declined one.
C21_Witness ==
  \E g \in Cards :
    /\ ~cardView[g].loading /\ cardView[g].card_spending_limit = 200
    /\ Len(cardView[g].transactions) = 2
    /\ cardView[g].transactions[1] = [amount |-> 250, status |-> "approved"]
    /\ cardView[g].transactions[2].status = "declined"
    /\ calculateRemainingBalance(g) = 0

\* C22: for every total and every member count from 2 to 10 the shares shown
\* add up to the total within one cent per member.
C22_SharesAddUp ==
  costShown # NoCost =>
    LET sum == costShown.members * costShown.costPerMember IN
      /\ sum - costShown.total <= costShown.members
      /\ costShown.total - sum <= costShown.members

\* 430.00 shared by 7: 61.43 each, one cent more than the total together.
C22_Witness ==
  /\ costShown.total = 43000 /\ costShown.members = 7
  /\ costShown.costPerMember = 6143

\* ------------------------------------------------- create form properties
\* C23: every time slot of the form ends 6 days after it starts, whatever
\* slots were added, changed and removed.
C23_EndIsStartPlusSix ==
  \A i \in 1..Len(createForm.timeSlots) :
    createForm.timeSlots[i].end_date = createForm.timeSlots[i].start_date + 6

\* C24: the form never holds more than 5 time slots (adding to 5 slots
\* leaves the list as it is), and a create request with more than 5 time
\* slots is rejected: what is accepted has at most 5.
C24_AtMostFiveTimeSlots ==
  /\ Len(createForm.timeSlots) <= maxTimeSlots
  /\ createForm.result = "ok" => createForm.posted <= maxTimeSlots
  /\ createForm.posted > maxTimeSlots => createForm.result = "ValidationError"

C24_Witness ==
  /\ Len(createForm.timeSlots) = maxTimeSlots
  /\ createForm.posted = maxTimeSlots + 1
  /\ createForm.result = "ValidationError"

\* -------------------------------------------- more properties of the gate
\* C25: the number of failed attempts never exceeds maxAccessAttempts, also
\* with several verifyCardAccess calls in flight.
C25_AttemptsCapped == accessAttempts <= maxAccessAttempts

\* C26: a timeout of the automatic logout ends only a session that has lasted
\* its sessionTimeoutMs: a timeout left over from an earlier session does not
\* end a later one early.
C26_NoEarlyLogout ==
  [][(isCardAccessVerified /\ ~isCardAccessVerified' /\ logoutTimers' # logoutTimers)
       => lastAccessTime * TickMs >= sessionTimeoutMs]_vars

\* C27: card details are on screen only while the session is verified.
C27_RevealedOnlyWhenVerified ==
  \A g \in Cards : cardView[g].cardRevealed => isCardAccessVerified

\* C28: a frozen instrument can be unfrozen from every state of a loaded
\* view: the unfreeze control is on screen, or a reveal, which puts it on
\* screen, can be granted. (Only handleFreezeCard changes the status, so an
\* unfreeze is within reach exactly in these states.)
C28_FrozenCanBeUnfrozen ==
  \A g \in Cards : (instrument[g].frozen /\ ~cardView[g].loading) =>
    \/ cardView[g].cardRevealed
    \/ "granted" \in verifyAnswers(g)

\* ------------------------------------------ properties of the checkboxes
\* C29: two ticks of a participant on two different slots, the second made
\* before the update of the first was completed, are both applied: once both
\* updates are done, each of the two slots is selected if it was ticked on
\* and not selected if it was ticked off.
C29_BothTogglesApplied ==
  \A c \in SlotSessions :
    (/\ Len(puts[c]) = 2
     /\ puts[c][2].overlap /\ puts[c][1].slot # puts[c][2].slot
     /\ \A i \in 1..2 : puts[c][i].done /\ puts[c][i].result = "ok")
    => \A i \in 1..2 : (puts[c][i].slot \in selections[user[c]]) = puts[c][i].add

\* ------------------------------------------- properties of the booking
\* C30: the creator of a full group can book, with or without time slots:
\* whenever the card of a full group is shown to its creator, the group is
\* booked, or Book Service is on screen, or a final time slot can be chosen,
\* which puts it on screen. (Book Service is the only way to
\* bookedServices, and the request for payment is offered for booked groups.)
C30_FullGroupCanBeBooked ==
  \A c \in Clients : (GroupCardShown(c) /\ isCreator(c) /\ isReady(c)) =>
    \/ bookedServices[c]
    \/ selectedFinalTimeSlots[c] # 0
    \/ groups[c].time_slots # {}
====
